---- MODULE Spec2Model ----
(***************************************************************************)
(* A model of rusqlite's prepared statement (src/src/statement.rs): the    *)
(* Statement object, its parameter binding, execute, query and finalize,   *)
(* over an abstract SQLite engine.                                         *)
(*                                                                         *)
(* The engine (the ffi::sqlite3 calls) is external: the status a native    *)
(* call returns is an input of the call, drawn with \E.  RawStatement,     *)
(* Connection::decode_result, str_to_cstring and Rows live in files of the *)
(* crate other than statement.rs; they are modelled from the design        *)
(* document.                                                               *)
(***************************************************************************)
EXTENDS Integers, Sequences, FiniteSets, TLC

VARIABLES
    nparams,    \* sqlite3_bind_parameter_count of the prepared statement
    ncols,      \* sqlite3_column_count of the prepared statement
    labels,     \* sqlite3_column_name of each result column: the bytes of its label
    ptr,        \* Statement.stmt: "live" or "null" (RawStatement::new(ptr::null_mut()))
    owner,      \* who holds the Statement: "caller", or "gone" once it was consumed/dropped
    rawOut,     \* the RawStatement handed out by Into<RawStatement>: "none", "live", "null"
    nfinal,     \* number of sqlite3_finalize calls made on the live handle
    bound,      \* engine: the value bound to each parameter index
    st,         \* engine: step state "Ready", "HasRow", "Done", "Failed", "Finalized"
    changes,    \* connection: sqlite3_changes
    rows,       \* the outstanding Rows cursor borrowed from the statement, or NoRows
    last        \* the most recent call: its name, inputs, result and native calls

vars == <<nparams, ncols, labels, ptr, owner, rawOut, nfinal, bound, st, changes, rows, last>>

(***************************************************************************)
(* Bounds of the model.                                                    *)
(***************************************************************************)
MaxChanges == 1     \* sqlite3_changes reports 0..MaxChanges
MaxNamed == 2       \* a named mapping has 0..MaxNamed entries (SpecNamed)
MaxNamedExec == 1   \* a named mapping has 0..MaxNamedExec entries (Spec)
MaxRows == 2        \* a cursor delivers at most MaxRows elements (SpecRows)
MaxCols == 2        \* a statement has 0..MaxCols result columns (SpecCols)
MaxLabel == 1       \* a column label has 0..MaxLabel bytes (SpecCols)

(***************************************************************************)
(* Machine integers.  A usize is kept as hi * 2^31 + lo with               *)
(* 0 <= lo <= I32_MAX, so that lengths beyond the c_int range are          *)
(* representable and `as c_int` keeps the low 32 bits.                     *)
(***************************************************************************)
I32_MAX == 2147483647

USize(hi, lo) == [hi |-> hi, lo |-> lo]

Small(n) == USize(0, n)

\* faulty variant of ExceedsI32: no length is refused
ExceedsI32_Unchecked(x) == FALSE

\* `x > ::std::i32::MAX as usize`
ExceedsI32(x) == x.hi > 0

\* `x as c_int`: the low 32 bits of x, read as a signed integer
as_c_int(x) == IF x.hi % 2 = 0 THEN x.lo ELSE (x.lo - I32_MAX) - 1

(***************************************************************************)
(* Strings and values.  A string is its content tag, its byte length and   *)
(* whether its bytes contain a NUL.  Text and Blob values carry the same   *)
(* three fields.  A parameter is a ToSql object: a value, a ZeroBlob       *)
(* request, or one whose to_sql() fails (kind "ConvErr").                  *)
(***************************************************************************)
Val(k, id, len, nul) == [k |-> k, id |-> id, len |-> len, nul |-> nul]

Null == Val("Null", 0, Small(0), FALSE)
Integer(i) == Val("Integer", i, Small(0), FALSE)
Real(r) == Val("Real", r, Small(0), FALSE)
Text(id, len, nul) == Val("Text", id, len, nul)
Blob(id, len) == Val("Blob", id, len, FALSE)
ConvErr == Val("ConvErr", 0, Small(0), FALSE)
\* ToSqlOutput::ZeroBlob(len)
ZeroBlob(len) == Val("ZeroBlob", len, Small(0), FALSE)
\* a panic where a value was expected
Panicked == Val("Panic", 0, Small(0), FALSE)

\* Real(r) is the number tagged r, but for the NaN
NaN == Real(0)

\* The empty text and the empty blob: no bytes.
EmptyText == Text(0, Small(0), FALSE)
EmptyBlob == Blob(0, Small(0))

\* Text longer than i32::MAX bytes.
TooBigText == Text(2, USize(1, 0), FALSE)

\* Text with an interior NUL byte.
NulText == Text(3, Small(2), TRUE)

\* the values of positional slices in SpecPos, and in Spec
PosValues == {Integer(1), Text(1, Small(1), FALSE), TooBigText, NulText, ConvErr}

LeanValues == {Integer(1), ConvErr}

(***************************************************************************)
(* Names.  The statement's i-th parameter is named by the string tagged i. *)
(***************************************************************************)
Str(id, len, nul) == [id |-> id, len |-> len, nul |-> nul]

NoStr == Str(0, Small(0), FALSE)

StrOf(v) == Str(v.id, v.len, v.nul)

ParamName(i) == Str(i, Small(2), FALSE)

\* A well-formed name that is no parameter of any statement of the model.
UnknownName == Str(26, Small(3), FALSE)

\* A name with an interior NUL byte.
NulName == Str(27, Small(3), TRUE)

Names(n) == {ParamName(i) : i \in 1..n} \cup {UnknownName, NulName}

(***************************************************************************)
(* The statements of the model are those the crate's tests and examples    *)
(* prepare, by their parameter and result column counts.                   *)
(***************************************************************************)
Statements ==
    {[nparams |-> 2, ncols |-> 0],    \* INSERT INTO test (x, y) VALUES (:x, :y)
     [nparams |-> 1, ncols |-> 1],    \* SELECT id FROM test where name = :name
     [nparams |-> 0, ncols |-> 1]}    \* SELECT name FROM people

(***************************************************************************)
(* Results.                                                                *)
(***************************************************************************)
Res(tag, val, err, code, name) ==
    [tag |-> tag, val |-> val, err |-> err, code |-> code, name |-> name]

Ok(n) == Res("Ok", n, "", "", NoStr)
Err(kind) == Res("Err", 0, kind, "", NoStr)
SqliteFailure(code) == Res("Err", 0, "SqliteFailure", code, NoStr)
InvalidParameterName(name) == Res("Err", 0, "InvalidParameterName", "", name)
Panic == Res("Panic", 0, "", "", NoStr)
Unit == Res("Unit", 0, "", "", NoStr)

IsOk(r) == r.tag = "Ok"

\* Connection::decode_result: success maps to Ok, any other status to an engine error.
decode_result(code) ==
    IF code = "SQLITE_OK" THEN Ok(0) ELSE SqliteFailure(code)

\* str_to_cstring: fails on an interior NUL byte, else yields the C string.
str_to_cstring(s) ==
    IF s.nul THEN [r |-> Err("NulError"), c |-> NoStr] ELSE [r |-> Ok(0), c |-> s]

(***************************************************************************)
(* The world a call works on: the statement's handle, the engine's state   *)
(* of the prepared statement, the connection's change count, and the       *)
(* native calls made so far by the call in progress.                       *)
(***************************************************************************)
Call(f, col, n, d) == [f |-> f, col |-> col, n |-> n, d |-> d]

Did(w, c) == [w EXCEPT !.native = Append(@, c)]

Out(w, r) == [w |-> w, r |-> r]

\* RawStatement::bind_parameter_count, RawStatement::column_count
bind_parameter_count(w) == w.nparams

column_count(w) == w.ncols

(***************************************************************************)
(* Column labels.  A byte is a number: 0 is NUL, 1 and 2 stand for the     *)
(* two cases of one letter.  The engine keeps a label as a C string, its   *)
(* bytes followed by a NUL.                                                *)
(***************************************************************************)
LabelBytes == {1, 2}

\* the sequences of at most n elements of S
SeqUpTo(S, n) == UNION {[1..k -> S] : k \in 0..n}

\* RawStatement::column_name(i), i counted from 0: the label as a CStr
column_name(w, i) == Append(w.labels[i + 1], 0)

\* CStr::to_bytes: the bytes before the first NUL
to_bytes(c) ==
    LET nul == CHOOSE k \in 1..Len(c) : c[k] = 0 /\ \A j \in 1..(k - 1) : c[j] # 0
    IN  SubSeq(c, 1, nul - 1)

\* str::as_bytes: every byte of the string, a NUL included
as_bytes(name) == name

\* Statement::column_names; the labels are valid UTF-8, so from_utf8(..).unwrap() keeps
\* the bytes
column_names(w) == [k \in 1..column_count(w) |-> to_bytes(column_name(w, k - 1))]

InvalidColumnName(name) == Res("Err", 0, "InvalidColumnName", "", name)

\* the two cases of a letter taken as one
FoldCase(b) == [k \in DOMAIN b |-> IF b[k] = 2 THEN 1 ELSE b[k]]

\* faulty variant of Matches: the comparison ignores case
Matches_FoldCase(w, name, i) ==
    FoldCase(as_bytes(name)) = FoldCase(to_bytes(column_name(w, i)))

\* `bytes == self.stmt.column_name(i).to_bytes()`
Matches(w, name, i) == as_bytes(name) = to_bytes(column_name(w, i))

\* Statement::column_index: the loop `for i in 0..n` from index i on
RECURSIVE column_index_from(_, _, _)
column_index_from(w, name, i) ==
    IF i >= column_count(w) THEN InvalidColumnName(name)
    ELSE IF Matches(w, name, i) THEN Ok(i)
    ELSE column_index_from(w, name, i + 1)

column_index(w, name) == column_index_from(w, name, 0)

\* RawStatement::bind_parameter_index: Some(i) as i, None as 0
bind_parameter_index(w, c_name) ==
    IF \E i \in 1..w.nparams : ParamName(i) = c_name
    THEN CHOOSE i \in 1..w.nparams : ParamName(i) = c_name
    ELSE 0

(***************************************************************************)
(* The native bind calls.  rc is the status the engine chooses for a bind  *)
(* at a valid index; an index outside 1..nparams is SQLITE_RANGE.  A bind  *)
(* that does not return SQLITE_OK stores nothing.  Under SQLITE_TRANSIENT  *)
(* the engine copies the bytes during the call; under SQLITE_STATIC it     *)
(* keeps the pointer, and the bytes it points to are freed when            *)
(* bind_parameter returns.                                                 *)
(***************************************************************************)
\* bytes that were freed: their content is that of no value
Freed(v) == [v EXCEPT !.id = -1]

sqlite3_bind(w, f, col, n, d, stored, rc) ==
    LET code == IF col \in 1..w.nparams THEN rc ELSE "SQLITE_RANGE"
        w1 == Did(w, Call(f, col, n, d))
        v == IF d = "SQLITE_STATIC" /\ n > 0 THEN Freed(stored) ELSE stored
    IN  [w |-> IF code = "SQLITE_OK" THEN [w1 EXCEPT !.bound[col] = v] ELSE w1,
         code |-> code]

\* what sqlite3_bind_text / sqlite3_bind_blob keep of n bytes of the data passed
Kept(v, n) == IF n >= 0 THEN [v EXCEPT !.len = Small(n)] ELSE v

\* what sqlite3_bind_double keeps: the number, NULL for a NaN
KeptReal(v) == IF v = NaN THEN Null ELSE v

\* what sqlite3_bind_zeroblob keeps: n zero bytes
Zeroes(n) == Blob(0, Small(IF n >= 0 THEN n ELSE 0))

(***************************************************************************)
(* Statement::parameter_index                                              *)
(***************************************************************************)
parameter_index(w, name) ==
    LET c_name == str_to_cstring(name)
    IN  IF ~IsOk(c_name.r) THEN [r |-> c_name.r, i |-> 0]
        ELSE [r |-> Ok(0), i |-> bind_parameter_index(w, c_name.c)]

(***************************************************************************)
(* Statement::bind_parameter                                               *)
(***************************************************************************)
\* faulty variant of bind_parameter: text is always bound with SQLITE_STATIC
bind_parameter_AlwaysStatic(w, param, col, rc) ==
    IF param.k = "ConvErr" THEN Out(w, Err("ToSqlConversionFailure"))
    ELSE IF param.k = "ZeroBlob" THEN
        LET b == sqlite3_bind(w, "sqlite3_bind_zeroblob", col, param.id, "", Zeroes(param.id), rc)
        IN  Out(b.w, decode_result(b.code))
    ELSE IF param.k = "Null" THEN
        LET b == sqlite3_bind(w, "sqlite3_bind_null", col, 0, "", Null, rc)
        IN  Out(b.w, decode_result(b.code))
    ELSE IF param.k = "Integer" THEN
        LET b == sqlite3_bind(w, "sqlite3_bind_int64", col, 0, "", param, rc)
        IN  Out(b.w, decode_result(b.code))
    ELSE IF param.k = "Real" THEN
        LET b == sqlite3_bind(w, "sqlite3_bind_double", col, 0, "", KeptReal(param), rc)
        IN  Out(b.w, decode_result(b.code))
    ELSE IF param.k = "Text" THEN
        LET length == param.len
            c_str == str_to_cstring(StrOf(param))
            destructor == "SQLITE_STATIC"
            n == as_c_int(length)
            b == sqlite3_bind(w, "sqlite3_bind_text", col, n, destructor, Kept(param, n), rc)
        IN  IF ExceedsI32(length) THEN Out(w, decode_result("SQLITE_TOOBIG"))
            ELSE IF ~IsOk(c_str.r) THEN Out(w, c_str.r)
            ELSE Out(b.w, decode_result(b.code))
    ELSE \* Blob
        LET length == param.len
            n == as_c_int(length)
            z == sqlite3_bind(w, "sqlite3_bind_zeroblob", col, 0, "", Zeroes(0), rc)
            b == sqlite3_bind(w, "sqlite3_bind_blob", col, n, "SQLITE_TRANSIENT",
                              Kept(param, n), rc)
        IN  IF ExceedsI32(length) THEN Out(w, decode_result("SQLITE_TOOBIG"))
            ELSE IF length = Small(0) THEN Out(z.w, decode_result(z.code))
            ELSE Out(b.w, decode_result(b.code))

bind_parameter(w, param, col, rc) ==
    IF param.k = "ConvErr" THEN Out(w, Err("ToSqlConversionFailure"))
    ELSE IF param.k = "ZeroBlob" THEN
        LET b == sqlite3_bind(w, "sqlite3_bind_zeroblob", col, param.id, "", Zeroes(param.id), rc)
        IN  Out(b.w, decode_result(b.code))
    ELSE IF param.k = "Null" THEN
        LET b == sqlite3_bind(w, "sqlite3_bind_null", col, 0, "", Null, rc)
        IN  Out(b.w, decode_result(b.code))
    ELSE IF param.k = "Integer" THEN
        LET b == sqlite3_bind(w, "sqlite3_bind_int64", col, 0, "", param, rc)
        IN  Out(b.w, decode_result(b.code))
    ELSE IF param.k = "Real" THEN
        LET b == sqlite3_bind(w, "sqlite3_bind_double", col, 0, "", KeptReal(param), rc)
        IN  Out(b.w, decode_result(b.code))
    ELSE IF param.k = "Text" THEN
        LET length == param.len
            c_str == str_to_cstring(StrOf(param))
            destructor == IF length # Small(0) THEN "SQLITE_TRANSIENT" ELSE "SQLITE_STATIC"
            n == as_c_int(length)
            b == sqlite3_bind(w, "sqlite3_bind_text", col, n, destructor, Kept(param, n), rc)
        IN  IF ExceedsI32(length) THEN Out(w, decode_result("SQLITE_TOOBIG"))
            ELSE IF ~IsOk(c_str.r) THEN Out(w, c_str.r)
            ELSE Out(b.w, decode_result(b.code))
    ELSE \* Blob
        LET length == param.len
            n == as_c_int(length)
            z == sqlite3_bind(w, "sqlite3_bind_zeroblob", col, 0, "", Zeroes(0), rc)
            b == sqlite3_bind(w, "sqlite3_bind_blob", col, n, "SQLITE_TRANSIENT",
                              Kept(param, n), rc)
        IN  IF ExceedsI32(length) THEN Out(w, decode_result("SQLITE_TOOBIG"))
            ELSE IF length = Small(0) THEN Out(z.w, decode_result(z.code))
            ELSE Out(b.w, decode_result(b.code))

(***************************************************************************)
(* What the engine answers during one call: the loop iteration whose       *)
(* native bind it refuses (0: none), the status of the step, the change    *)
(* count a completed step leaves, and the status of the finalize.          *)
(***************************************************************************)
Engine(bindFail, step, chg, fin) ==
    [bindFail |-> bindFail, step |-> step, changes |-> chg, fin |-> fin]

BindStatus(e, k) == IF k = e.bindFail THEN "SQLITE_NOMEM" ELSE "SQLITE_OK"

(***************************************************************************)
(* Statement::bind_parameters.  params is the slice: its length and its    *)
(* leading entries (every entry when the length is small).                 *)
(***************************************************************************)
RECURSIVE bind_from(_, _, _, _)
\* the for loop from entry i on: entry i is bound at column (i - 1) + 1
bind_from(w, vals, i, e) ==
    IF i > Len(vals) THEN Out(w, Ok(0))
    ELSE LET b == bind_parameter(w, vals[i], as_c_int(Small((i - 1) + 1)), BindStatus(e, i))
         IN  IF ~IsOk(b.r) THEN b ELSE bind_from(b.w, vals, i + 1, e)

\* faulty variant of bind_from: binds at the zero-based index i - 1
RECURSIVE bind_from_ZeroBased(_, _, _, _)
bind_from_ZeroBased(w, vals, i, e) ==
    IF i > Len(vals) THEN Out(w, Ok(0))
    ELSE LET b == bind_parameter(w, vals[i], as_c_int(Small(i - 1)), BindStatus(e, i))
         IN  IF ~IsOk(b.r) THEN b ELSE bind_from_ZeroBased(b.w, vals, i + 1, e)

\* faulty variant of bind_parameters, over bind_from_ZeroBased
bind_parameters_ZeroBased(w, params, e) ==
    IF as_c_int(params.len) # bind_parameter_count(w) THEN Out(w, Panic)
    ELSE bind_from_ZeroBased(w, params.vals, 1, e)

\* faulty variant of bind_parameters: a failed call puts back the values held before it
bind_parameters_Atomic(w, params, e) ==
    IF as_c_int(params.len) # bind_parameter_count(w) THEN Out(w, Panic)
    ELSE LET b == bind_from(w, params.vals, 1, e)
         IN  IF IsOk(b.r) THEN b ELSE Out([b.w EXCEPT !.bound = w.bound], b.r)

bind_parameters(w, params, e) ==
    IF as_c_int(params.len) # bind_parameter_count(w) THEN Out(w, Panic)
    ELSE bind_from(w, params.vals, 1, e)

(***************************************************************************)
(* Statement::bind_parameters_named                                        *)
(***************************************************************************)
RECURSIVE bind_named_from(_, _, _, _)
\* the for loop from entry k on
bind_named_from(w, params, k, e) ==
    IF k > Len(params) THEN Out(w, Ok(0))
    ELSE LET name == params[k].name
             value == params[k].value
             pi == parameter_index(w, name)
             b == bind_parameter(w, value, pi.i, BindStatus(e, k))
         IN  IF ~IsOk(pi.r) THEN Out(w, pi.r)
             ELSE IF pi.i # 0 THEN
                 IF ~IsOk(b.r) THEN b ELSE bind_named_from(b.w, params, k + 1, e)
             ELSE Out(w, InvalidParameterName(name))

\* faulty variant of bind_named_from: an unresolvable name is skipped, not reported
RECURSIVE bind_named_from_SkipUnknown(_, _, _, _)
bind_named_from_SkipUnknown(w, params, k, e) ==
    IF k > Len(params) THEN Out(w, Ok(0))
    ELSE LET name == params[k].name
             value == params[k].value
             pi == parameter_index(w, name)
             b == bind_parameter(w, value, pi.i, BindStatus(e, k))
         IN  IF ~IsOk(pi.r) THEN Out(w, pi.r)
             ELSE IF pi.i # 0 THEN
                 IF ~IsOk(b.r) THEN b ELSE bind_named_from_SkipUnknown(b.w, params, k + 1, e)
             ELSE bind_named_from_SkipUnknown(w, params, k + 1, e)

\* faulty variant of bind_parameters_named, over bind_named_from_SkipUnknown
bind_parameters_named_SkipUnknown(w, params, e) == bind_named_from_SkipUnknown(w, params, 1, e)

\* faulty variant of bind_parameters_named: clears every binding before binding
bind_parameters_named_ClearFirst(w, params, e) ==
    bind_named_from([w EXCEPT !.bound = [i \in 1..w.nparams |-> Null]], params, 1, e)

bind_parameters_named(w, params, e) == bind_named_from(w, params, 1, e)

(***************************************************************************)
(* RawStatement: step, reset, finalize; Connection::changes.               *)
(***************************************************************************)
\* RawStatement::step
RawStep(w, e) ==
    LET w1 == Did(w, Call("sqlite3_step", 0, 0, ""))
    IN  [w |-> IF e.step = "SQLITE_ROW" THEN [w1 EXCEPT !.st = "HasRow"]
               ELSE IF e.step = "SQLITE_DONE"
                    THEN [w1 EXCEPT !.st = "Done",
                                    !.changes = IF w.ncols = 0 THEN e.changes ELSE @]
               ELSE [w1 EXCEPT !.st = "Failed"],
         code |-> e.step]

\* RawStatement::reset: discards the row state, keeps the bindings
RawReset(w) == [Did(w, Call("sqlite3_reset", 0, 0, "")) EXCEPT !.st = "Ready"]

\* RawStatement::finalize of handle h: releases a live handle (the engine destroys the
\* prepared statement and its bindings), no-op on null
RawFinalize(w, h, e) ==
    IF h = "live"
    THEN [w |-> [Did(w, Call("sqlite3_finalize", 0, 0, ""))
                    EXCEPT !.nfinal = @ + 1, !.st = "Finalized", !.bound = <<>>],
          code |-> e.fin]
    ELSE [w |-> w, code |-> "SQLITE_OK"]

\* Connection::changes
conn_changes(w) == [w |-> Did(w, Call("sqlite3_changes", 0, 0, "")), n |-> w.changes]

\* Result::unwrap_err
unwrap_err(r) == IF IsOk(r) THEN Panic ELSE r

(***************************************************************************)
(* StatementCrateImpl::step and reset, the statement as the cursor sees    *)
(* it.  Ok(true) is Ok(1), Ok(false) is Ok(0).                             *)
(***************************************************************************)
\* faulty variant of step: the statement is reset when the step fails
step_ResetOnError(w, e) ==
    LET s == RawStep(w, e)
    IN  IF s.code = "SQLITE_ROW" THEN Out(s.w, Ok(1))
        ELSE IF s.code = "SQLITE_DONE" THEN Out(s.w, Ok(0))
        ELSE Out(RawReset(s.w), unwrap_err(decode_result(s.code)))

step(w, e) ==
    LET s == RawStep(w, e)
    IN  IF s.code = "SQLITE_ROW" THEN Out(s.w, Ok(1))
        ELSE IF s.code = "SQLITE_DONE" THEN Out(s.w, Ok(0))
        ELSE Out(s.w, unwrap_err(decode_result(s.code)))

reset(w) == RawReset(w)

(***************************************************************************)
(* StatementCrateImpl::value_ref.  A cell is what the engine's column      *)
(* calls answer for one column of the current row: the column type, the    *)
(* content v, whether the data pointer is null, and the byte count.  The   *)
(* first NUL of a content that has one comes after its first byte.         *)
(***************************************************************************)
\* the cell of a column whose content is the value v the engine keeps
Cell(v) ==
    [type |-> IF v.k = "Null" THEN "SQLITE_NULL"
              ELSE IF v.k = "Integer" THEN "SQLITE_INTEGER"
              ELSE IF v.k = "Real" THEN "SQLITE_FLOAT"
              ELSE IF v.k = "Text" THEN "SQLITE_TEXT"
              ELSE "SQLITE_BLOB",
     v |-> v,
     null |-> v.k = "Null" \/ (v.k = "Blob" /\ v.len = Small(0)),
     bytes |-> v.len.lo]

\* faulty variant of value_ref: a blob whose data pointer is null is read as Null
value_ref_NullPointerIsNull(cell) ==
    IF cell.type = "SQLITE_NULL" THEN Null
    ELSE IF cell.type = "SQLITE_INTEGER" THEN Integer(cell.v.id)
    ELSE IF cell.type = "SQLITE_FLOAT" THEN Real(cell.v.id)
    ELSE IF cell.type = "SQLITE_TEXT" THEN
        IF cell.null THEN Panicked
        ELSE IF cell.v.nul THEN Text(cell.v.id, Small(1), FALSE)
        ELSE Text(cell.v.id, cell.v.len, FALSE)
    ELSE IF cell.type = "SQLITE_BLOB" THEN
        IF cell.bytes < 0 THEN Panicked
        ELSE IF cell.null THEN Null
        ELSE Blob(cell.v.id, Small(cell.bytes))
    ELSE Panicked

value_ref(cell) ==
    IF cell.type = "SQLITE_NULL" THEN Null
    ELSE IF cell.type = "SQLITE_INTEGER" THEN Integer(cell.v.id)
    ELSE IF cell.type = "SQLITE_FLOAT" THEN Real(cell.v.id)
    ELSE IF cell.type = "SQLITE_TEXT" THEN
        \* CStr::from_ptr: the bytes before the first NUL
        IF cell.null THEN Panicked
        ELSE IF cell.v.nul THEN Text(cell.v.id, Small(1), FALSE)
        ELSE Text(cell.v.id, cell.v.len, FALSE)
    ELSE IF cell.type = "SQLITE_BLOB" THEN
        LET len == cell.bytes
        IN  IF len < 0 THEN Panicked
            ELSE IF len > 0 THEN
                IF cell.null THEN Panicked ELSE Blob(cell.v.id, Small(len))
            ELSE EmptyBlob
    ELSE Panicked

(***************************************************************************)
(* Statement::execute_with_bound_parameters                                *)
(***************************************************************************)
\* faulty variant: the reset is left out
execute_with_bound_parameters_NoReset(w, e) ==
    LET s == RawStep(w, e)
        r == s.code
        c == conn_changes(s.w)
    IN  IF r = "SQLITE_DONE" THEN
            IF column_count(s.w) = 0 THEN Out(c.w, Ok(c.n))
            ELSE Out(s.w, Err("ExecuteReturnedResults"))
        ELSE IF r = "SQLITE_ROW" THEN Out(s.w, Err("ExecuteReturnedResults"))
        ELSE Out(s.w, unwrap_err(decode_result(r)))

\* faulty variant: the reset comes before the step
execute_with_bound_parameters_ResetFirst(w, e) ==
    LET s == RawStep(RawReset(w), e)
        r == s.code
        c == conn_changes(s.w)
    IN  IF r = "SQLITE_DONE" THEN
            IF column_count(s.w) = 0 THEN Out(c.w, Ok(c.n))
            ELSE Out(s.w, Err("ExecuteReturnedResults"))
        ELSE IF r = "SQLITE_ROW" THEN Out(s.w, Err("ExecuteReturnedResults"))
        ELSE Out(s.w, unwrap_err(decode_result(r)))

\* faulty variant: completion succeeds whatever the column count
execute_with_bound_parameters_NoColumnCheck(w, e) ==
    LET s == RawStep(w, e)
        r == s.code
        w2 == RawReset(s.w)
        c == conn_changes(w2)
    IN  IF r = "SQLITE_DONE" THEN Out(c.w, Ok(c.n))
        ELSE IF r = "SQLITE_ROW" THEN Out(w2, Err("ExecuteReturnedResults"))
        ELSE Out(w2, unwrap_err(decode_result(r)))

\* faulty variant: the change count is read before the step
execute_with_bound_parameters_ChangesFirst(w, e) ==
    LET c == conn_changes(w)
        s == RawStep(c.w, e)
        r == s.code
        w2 == RawReset(s.w)
    IN  IF r = "SQLITE_DONE" THEN
            IF column_count(w2) = 0 THEN Out(w2, Ok(c.n))
            ELSE Out(w2, Err("ExecuteReturnedResults"))
        ELSE IF r = "SQLITE_ROW" THEN Out(w2, Err("ExecuteReturnedResults"))
        ELSE Out(w2, unwrap_err(decode_result(r)))

execute_with_bound_parameters(w, e) ==
    LET s == RawStep(w, e)
        r == s.code
        w2 == RawReset(s.w)
        c == conn_changes(w2)
    IN  IF r = "SQLITE_DONE" THEN
            IF column_count(w2) = 0 THEN Out(c.w, Ok(c.n))
            ELSE Out(w2, Err("ExecuteReturnedResults"))
        ELSE IF r = "SQLITE_ROW" THEN Out(w2, Err("ExecuteReturnedResults"))
        ELSE Out(w2, unwrap_err(decode_result(r)))

(***************************************************************************)
(* Statement::execute, execute_named, query, query_named.  try! returns    *)
(* the binding's error; a panic unwinds through the call.                  *)
(***************************************************************************)
\* faulty variant of execute: the statement is reset when binding fails
execute_ResetOnFailure(w, params, e) ==
    LET b == bind_parameters(w, params, e)
    IN  IF ~IsOk(b.r) THEN Out(RawReset(b.w), b.r) ELSE execute_with_bound_parameters(b.w, e)

execute(w, params, e) ==
    LET b == bind_parameters(w, params, e)
    IN  IF ~IsOk(b.r) THEN b ELSE execute_with_bound_parameters(b.w, e)

execute_named(w, params, e) ==
    LET b == bind_parameters_named(w, params, e)
    IN  IF ~IsOk(b.r) THEN b ELSE execute_with_bound_parameters(b.w, e)

\* faulty variant of query: the statement is stepped once before the cursor is returned
query_Stepping(w, params, e) ==
    LET b == bind_parameters(w, params, e)
    IN  IF ~IsOk(b.r) THEN b ELSE Out(RawStep(b.w, e).w, Ok(0))

\* Ok stands for Ok(Rows::new(self))
query(w, params, e) ==
    LET b == bind_parameters(w, params, e)
    IN  IF ~IsOk(b.r) THEN b ELSE Out(b.w, Ok(0))

query_named(w, params, e) ==
    LET b == bind_parameters_named(w, params, e)
    IN  IF ~IsOk(b.r) THEN b ELSE Out(b.w, Ok(0))

(***************************************************************************)
(* Statement::finalize_, finalize, Drop for Statement, Into<RawStatement>  *)
(***************************************************************************)
\* faulty variant of finalize_: the handle is released without being swapped out
finalize__NoSwap(w, e) ==
    LET f == RawFinalize(w, w.ptr, e)
    IN  Out(f.w, decode_result(f.code))

finalize_(w, e) ==
    LET stmt == w.ptr
        f == RawFinalize([w EXCEPT !.ptr = "null"], stmt, e)
    IN  Out(f.w, decode_result(f.code))

\* Drop for Statement: the result of finalize_ is discarded
drop(w, e) == Out(finalize_(w, e).w, Unit)

\* faulty variant of finalize: the result of finalize_ is discarded as in drop
finalize_Discarding(w, e) ==
    LET f == finalize_(w, e)
    IN  Out(drop(f.w, e).w, Ok(0))

\* Statement::finalize(mut self): finalize_, then self goes out of scope
finalize(w, e) ==
    LET f == finalize_(w, e)
    IN  Out(drop(f.w, e).w, f.r)

\* Into<RawStatement>::into(mut self): the handle is swapped out, then self is dropped
into(w, e) ==
    LET stmt == w.ptr
        d == drop([w EXCEPT !.ptr = "null"], e)
    IN  [w |-> d.w, raw |-> stmt]

\* query_map, query_and_then and their named forms wrap the Rows of query / query_named
query_map(w, params, e) == query(w, params, e)

query_and_then(w, params, e) == query(w, params, e)

query_map_named(w, params, e) == query_named(w, params, e)

query_and_then_named(w, params, e) == query_named(w, params, e)

(***************************************************************************)
(* Rows, the cursor borrowed from the statement by a query.                *)
(* kind   "rows", "map", "and_then", or "none" when no cursor is alive      *)
(* done   an advance of the cursor has seen the completion of the statement*)
(* live   the number of cursors alive on the statement                     *)
(* elems  the elements the cursor has delivered, oldest first              *)
(* held   the column values the caller holds, borrowed from the cursor's   *)
(*        current row, each with whether the engine still keeps its bytes  *)
(***************************************************************************)
NoRows == [kind |-> "none", done |-> FALSE, live |-> 0, elems |-> <<>>, held |-> {}]

\* Rows::new(self), and the MappedRows / AndThenRows wrapped around it
NewRows(kind) ==
    [kind |-> kind, done |-> FALSE, live |-> rows.live + 1, elems |-> <<>>, held |-> {}]

(***************************************************************************)
(* The inputs of the calls.                                                *)
(***************************************************************************)
\* Positional slices for a statement of n parameters: every slice of n values of V, one
\* slice of each other small length, and one whose length is n modulo 2^32.
PosParams(n, V) ==
    {[len |-> Small(n), vals |-> v] : v \in [1..n -> V]}
    \cup {[len |-> Small(k), vals |-> [i \in 1..k |-> Integer(1)]] : k \in (0..(n + 1)) \ {n}}
    \cup {[len |-> USize(2, n), vals |-> [i \in 1..(n + 1) |-> Integer(1)]]}

\* Named mappings of at most max entries; the k-th entry carries the value Integer(k).
NamedParams(n, max) ==
    {[k \in 1..Len(ns) |-> [name |-> ns[k], value |-> Integer(k)]] :
        ns \in UNION {[1..len -> Names(n)] : len \in 0..max}}

\* the statuses sqlite3_step may return, each with the change count it leaves;
\* C is the set of counts a completed statement may leave
StepChoices(C) ==
    {<<"SQLITE_DONE", c>> : c \in C}
    \cup {<<"SQLITE_BUSY", changes>>}
    \cup (IF ncols > 0 THEN {<<"SQLITE_ROW", changes>>} ELSE {})

FinalizeStatuses == {"SQLITE_OK", "SQLITE_CONSTRAINT"}

(***************************************************************************)
(* What `last` records of a call, besides its result and native calls:     *)
(* facts about the parameter list it was given, stated without reference   *)
(* to the binding code.                                                    *)
(*   plen     the length of a positional slice                             *)
(*   allSup   every value given is of a supported domain                   *)
(*   bad      the first entry that cannot be bound, and why                *)
(*   unknown  the well-formed names given that name no parameter           *)
(*   latest   after the call every parameter holds the latest value the    *)
(*            list gives it, or, if the list omits it, the value it held   *)
(*            before the call                                              *)
(*   kept     per parameter, the latest value the entries before `bad`     *)
(*            give it, else the value it held before the call              *)
(*   read     the value a read of a column returned                        *)
(*   arg      the name a column lookup was given                           *)
(*   first    the smallest index, counted from 0, of a column whose label  *)
(*            is the name given, -1 if there is none                       *)
(*   echo     column_names gives the name at the index the lookup returned *)
(*   prior    after the call the parameter of the first entry that cannot  *)
(*            be bound, and those of the entries after it, hold the values *)
(*            they held before the call                                    *)
(***************************************************************************)
PositionalOps == {"execute", "query", "query_map", "query_and_then"}

NamedOps == {"execute_named", "query_named", "query_map_named", "query_and_then_named"}

ExecuteOps == {"execute", "execute_named"}

Supported(v) == v.k \in {"Null", "Integer", "Real", "Text", "Blob"}

\* why bind_parameter turns a value down before any native call
Refusal(v) ==
    IF v.k = "ConvErr" THEN "conversion"
    ELSE IF v.k \in {"Text", "Blob"} /\ v.len.hi > 0 THEN "toobig"
    ELSE IF v.k = "Text" /\ v.nul THEN "nul"
    ELSE "none"

IsParam(n, name) == \E i \in 1..n : ParamName(i) = name

NoBad == [k |-> 0, why |-> "none", name |-> NoStr]

FirstOf(bad, why(_), name(_)) ==
    IF bad = {} THEN NoBad
    ELSE LET k == CHOOSE x \in bad : \A y \in bad : x <= y
         IN  [k |-> k, why |-> why(k), name |-> name(k)]

\* the first entry of a positional slice that does not get bound, and why
PosBad(n, vals, bf) ==
    LET why(k) == IF Refusal(vals[k]) # "none" THEN Refusal(vals[k])
                  ELSE IF k > n THEN "range"
                  ELSE IF k = bf THEN "engine"
                  ELSE "none"
        name(k) == NoStr
    IN  FirstOf({k \in 1..Len(vals) : why(k) # "none"}, why, name)

\* the first entry of a named mapping that does not get bound, and why
NamedBad(n, m, bf) ==
    LET why(k) == IF m[k].name.nul THEN "badname"
                  ELSE IF ~IsParam(n, m[k].name) THEN "unknown"
                  ELSE IF Refusal(m[k].value) # "none" THEN Refusal(m[k].value)
                  ELSE IF k = bf THEN "engine"
                  ELSE "none"
        name(k) == m[k].name
    IN  FirstOf({k \in 1..Len(m) : why(k) # "none"}, why, name)

\* the entries before the first bad one
Before(bad, len) == IF bad.k = 0 THEN len ELSE bad.k - 1

\* per parameter, the value of the last entry among the first upto that names it
LatestOf(n, m, upto, old) ==
    [i \in 1..n |->
        LET ks == {k \in 1..upto : m[k].name = ParamName(i)}
        IN  IF ks = {} THEN old[i]
            ELSE m[CHOOSE x \in ks : \A y \in ks : y <= x].value]

\* per parameter, the value a positional slice gives it among its first upto entries
PrefixOf(n, vals, upto, old) ==
    [i \in 1..n |-> IF i <= upto /\ i <= Len(vals) THEN vals[i] ELSE old[i]]

NoCall ==
    [op |-> "prepare", res |-> Unit, native |-> <<>>, bind |-> Unit, step |-> "",
     plen |-> Small(0), allSup |-> TRUE, bad |-> NoBad, unknown |-> {},
     latest |-> TRUE, kept |-> <<>>, fin |-> "", read |-> Null, prior |-> TRUE,
     arg |-> <<>>, first |-> -1, echo |-> TRUE]

(***************************************************************************)
(* The state after Connection::prepare.                                    *)
(***************************************************************************)
\* the labels of the statements of the model: one letter each
DefaultLabels(n) == [k \in 1..n |-> <<1>>]

\* Connection::prepare of a statement with n parameters and the column labels ls
Prepared(n, ls) ==
    /\ nparams = n
    /\ ncols = Len(ls)
    /\ labels = ls
    /\ ptr = "live"
    /\ owner = "caller"
    /\ rawOut = "none"
    /\ nfinal = 0
    /\ bound = [i \in 1..nparams |-> Null]
    /\ st = "Ready"
    /\ changes = 0
    /\ rows = NoRows
    /\ last = NoCall

InitOf(S) == \E s \in S : Prepared(s.nparams, DefaultLabels(s.ncols))

Init == InitOf(Statements)

W == [nparams |-> nparams, ncols |-> ncols, labels |-> labels, ptr |-> ptr, nfinal |-> nfinal,
      bound |-> bound, st |-> st, changes |-> changes, native |-> <<>>]

\* faulty variant of Callable: a cursor does not borrow the statement
Callable_Unborrowed == owner = "caller"

\* the statement can be called: the caller holds it and no cursor borrows it
Callable == owner = "caller" /\ rows = NoRows

\* the world after the call
Becomes(w) ==
    /\ ptr' = w.ptr
    /\ nfinal' = w.nfinal
    /\ bound' = w.bound
    /\ st' = w.st
    /\ changes' = w.changes
    /\ UNCHANGED <<nparams, ncols, labels>>

Returns(op, out, facts) ==
    /\ Becomes(out.w)
    /\ last' = [facts EXCEPT !.op = op, !.res = out.r, !.native = out.w.native]

PositionalFacts(params, b, e) ==
    LET bad == PosBad(nparams, params.vals, e.bindFail)
        exact == params.len = Small(nparams)
    IN  [NoCall EXCEPT
            !.bind = b.r,
            !.step = IF IsOk(b.r) THEN e.step ELSE "",
            !.plen = params.len,
            !.allSup = \A k \in 1..Len(params.vals) : Supported(params.vals[k]),
            !.bad = bad,
            !.latest = (b.w.bound = IF exact
                                    THEN PrefixOf(nparams, params.vals, nparams, bound)
                                    ELSE bound),
            !.kept = IF exact
                     THEN PrefixOf(nparams, params.vals, Before(bad, nparams), bound)
                     ELSE bound,
            !.prior = (bad.k > 0 => \A i \in bad.k..nparams : b.w.bound[i] = bound[i])]

NamedFacts(params, b, e) ==
    LET bad == NamedBad(nparams, params, e.bindFail)
    IN  [NoCall EXCEPT
            !.bind = b.r,
            !.step = IF IsOk(b.r) THEN e.step ELSE "",
            !.allSup = \A k \in 1..Len(params) : Supported(params[k].value),
            !.bad = bad,
            !.unknown = {params[k].name : k \in
                           {j \in 1..Len(params) : /\ ~params[j].name.nul
                                                   /\ ~IsParam(nparams, params[j].name)}},
            !.latest = (b.w.bound = LatestOf(nparams, params, Len(params), bound)),
            !.kept = LatestOf(nparams, params, Before(bad, Len(params)), bound),
            !.prior = (bad.k > 0 =>
                          \A j \in bad.k..Len(params) : \A i \in 1..nparams :
                              params[j].name = ParamName(i) => b.w.bound[i] = bound[i])]

\* the engine is asked once per native bind: the binds a call reaches when none is refused
Asked(b) == 0..Len(b.w.native)

(***************************************************************************)
(* The calls.  P is the set of parameter lists the call draws from.        *)
(***************************************************************************)
ExecuteOver(P, C) ==
    /\ Callable
    /\ \E params \in P :
       \E bf \in Asked(bind_parameters(W, params, Engine(0, "", 0, ""))) :
        LET b == bind_parameters(W, params, Engine(bf, "", 0, ""))
        IN  IF ~IsOk(b.r)
            THEN LET e == Engine(bf, "", 0, "")
                 IN  Returns("execute", execute(W, params, e), PositionalFacts(params, b, e))
            ELSE \E sc \in StepChoices(C) :
                 LET e == Engine(bf, sc[1], sc[2], "")
                 IN  Returns("execute", execute(W, params, e), PositionalFacts(params, b, e))
    /\ UNCHANGED <<owner, rawOut, rows>>

ExecuteNamedOver(P, C) ==
    /\ Callable
    /\ \E params \in P :
       \E bf \in Asked(bind_parameters_named(W, params, Engine(0, "", 0, ""))) :
        LET b == bind_parameters_named(W, params, Engine(bf, "", 0, ""))
        IN  IF ~IsOk(b.r)
            THEN LET e == Engine(bf, "", 0, "")
                 IN  Returns("execute_named", execute_named(W, params, e),
                             NamedFacts(params, b, e))
            ELSE \E sc \in StepChoices(C) :
                 LET e == Engine(bf, sc[1], sc[2], "")
                 IN  Returns("execute_named", execute_named(W, params, e),
                             NamedFacts(params, b, e))
    /\ UNCHANGED <<owner, rawOut, rows>>

\* a positional query: op names the method, kind the cursor it returns
QueryOver(P, op, kind, method(_, _, _)) ==
    /\ Callable
    /\ \E params \in P :
       \E bf \in Asked(bind_parameters(W, params, Engine(0, "", 0, ""))) :
        LET e == Engine(bf, "", 0, "")
            b == bind_parameters(W, params, e)
            o == method(W, params, e)
        IN  /\ Returns(op, o, PositionalFacts(params, b, e))
            /\ rows' = IF IsOk(o.r) THEN NewRows(kind) ELSE rows
    /\ UNCHANGED <<owner, rawOut>>

QueryNamedOver(P, op, kind, method(_, _, _)) ==
    /\ Callable
    /\ \E params \in P :
       \E bf \in Asked(bind_parameters_named(W, params, Engine(0, "", 0, ""))) :
        LET e == Engine(bf, "", 0, "")
            b == bind_parameters_named(W, params, e)
            o == method(W, params, e)
        IN  /\ Returns(op, o, NamedFacts(params, b, e))
            /\ rows' = IF IsOk(o.r) THEN NewRows(kind) ELSE rows
    /\ UNCHANGED <<owner, rawOut>>

\* the elements of a cursor
Some == Res("Some", 0, "", "", NoStr)
None == Res("None", 0, "", "", NoStr)

\* the outcomes of the transform of an and_then cursor on a row
Transforms == {"ok", "fail"}

\* faulty variant of Release: the values borrowed from a row outlive the advance
Release_Keeping(held) == held

\* a caller that advances or drops the cursor holds no value borrowed from its row
Release(held) == {}

\* faulty variant of Ends: a failed transform ends the cursor as completion does
Ends_OnFailure(s, r) == s.r = Ok(0) \/ r = Err("Transform")

\* the advance that ends the cursor: s is what the step returned, r the element
Ends(s, r) == s.r = Ok(0)

\* faulty variant of Exhausted: the cursor forgets that the statement completed
Exhausted_Never == FALSE

\* the cursor has seen the completion of the statement
Exhausted == rows.done

\* the engine frees a row's bytes at the next step or reset of the statement
Invalidate(held) == {[h EXCEPT !.valid = FALSE] : h \in held}

\* Rows::next, and next of MappedRows / AndThenRows: one step unless the cursor is
\* exhausted; a row of an and_then cursor goes through the transform, whose outcome is
\* drawn from T.  With rec the elements delivered are recorded, MaxRows at most.
RowsNextOver(T, rec) ==
    /\ owner = "caller"
    /\ rows.kind # "none"
    /\ IF Exhausted
       THEN /\ Returns("next", Out(W, None), [NoCall EXCEPT !.kept = last.kept])
            /\ rows' = [rows EXCEPT !.held = Release(@)]
       ELSE \E sc \in IF rec /\ Len(rows.elems) >= MaxRows
                      THEN {<<"SQLITE_DONE", changes>>}
                      ELSE StepChoices(0..MaxChanges) :
            LET e == Engine(0, sc[1], sc[2], "")
                s == step(W, e)
            IN  \E t \in IF s.r = Ok(1) /\ rows.kind = "and_then" THEN T ELSE {"ok"} :
                LET r == IF s.r = Ok(1)
                         THEN IF t = "ok" THEN Some ELSE Err("Transform")
                         ELSE IF s.r = Ok(0) THEN None
                         ELSE s.r
                IN  /\ Returns("next", Out(s.w, r),
                                [NoCall EXCEPT !.step = e.step, !.kept = last.kept])
                    /\ rows' = [rows EXCEPT
                                  !.done = Ends(s, r),
                                  !.elems = IF rec /\ r # None THEN Append(@, r) ELSE @,
                                  !.held = Invalidate(Release(@))]
    /\ UNCHANGED <<owner, rawOut>>

RowsNext == RowsNextOver({"ok"}, FALSE)

\* the caller reads a column of the row the cursor just delivered; Cells are the cells
\* the engine may hold there.  A text or blob read is borrowed from the row.
ReadOver(Cells) ==
    /\ owner = "caller"
    /\ rows.kind = "rows"
    /\ \/ last.op = "next" /\ last.res = Some
       \/ last.op = "read"
    /\ \E cell \in Cells :
        LET v == value_ref(cell)
        IN  /\ last' = [NoCall EXCEPT !.op = "read", !.read = v, !.kept = last.kept,
                                      !.res = IF v = Panicked THEN Panic ELSE Unit]
            /\ rows' = [rows EXCEPT
                          !.held = IF v.k \in {"Text", "Blob"}
                                   THEN @ \cup {[v |-> v, valid |-> TRUE]}
                                   ELSE @]
    /\ UNCHANGED <<nparams, ncols, labels, ptr, owner, rawOut, nfinal, bound, st, changes>>

\* the caller drops the cursor: the statement stays in its step state
DropRows ==
    /\ owner = "caller"
    /\ rows.kind # "none"
    /\ rows' = NoRows
    /\ last' = [NoCall EXCEPT !.op = "drop_rows"]
    /\ UNCHANGED <<nparams, ncols, labels, ptr, owner, rawOut, nfinal, bound, st, changes>>

Finalize ==
    /\ Callable
    /\ \E fin \in FinalizeStatuses :
        Returns("finalize", finalize(W, Engine(0, "", 0, fin)), [NoCall EXCEPT !.fin = fin])
    /\ owner' = "gone"
    /\ UNCHANGED <<rawOut, rows>>

Drop ==
    /\ Callable
    /\ \E fin \in FinalizeStatuses :
        Returns("drop", drop(W, Engine(0, "", 0, fin)), [NoCall EXCEPT !.fin = fin])
    /\ owner' = "gone"
    /\ UNCHANGED <<rawOut, rows>>

Into ==
    /\ Callable
    /\ \E fin \in FinalizeStatuses :
        LET o == into(W, Engine(0, "", 0, fin))
        IN  /\ Returns("into", Out(o.w, Unit), [NoCall EXCEPT !.fin = fin])
            /\ rawOut' = o.raw
    /\ owner' = "gone"
    /\ UNCHANGED <<rows>>

\* Drop for RawStatement, on the handle Into handed out
DropRaw ==
    /\ rawOut = "live"
    /\ \E fin \in FinalizeStatuses :
        LET f == RawFinalize(W, rawOut, Engine(0, "", 0, fin))
        IN  Returns("drop_raw", Out(f.w, Unit), [NoCall EXCEPT !.fin = fin])
    /\ rawOut' = "null"
    /\ UNCHANGED <<owner, rows>>

(***************************************************************************)
(* Spec: the statement's whole life, with short parameter lists.           *)
(***************************************************************************)
LeanPos == PosParams(nparams, LeanValues)

LeanNamed == NamedParams(nparams, MaxNamedExec)

Execute == ExecuteOver(LeanPos, 0..MaxChanges)

ExecuteNamed == ExecuteNamedOver(LeanNamed, 0..MaxChanges)

Query == QueryOver(LeanPos, "query", "rows", query)

QueryMap == QueryOver(LeanPos, "query_map", "map", query_map)

QueryAndThen == QueryOver(LeanPos, "query_and_then", "and_then", query_and_then)

QueryNamed == QueryNamedOver(LeanNamed, "query_named", "rows", query_named)

QueryMapNamed == QueryNamedOver(LeanNamed, "query_map_named", "map", query_map_named)

QueryAndThenNamed ==
    QueryNamedOver(LeanNamed, "query_and_then_named", "and_then", query_and_then_named)

Next ==
    \/ Execute
    \/ ExecuteNamed
    \/ Query
    \/ QueryMap
    \/ QueryAndThen
    \/ QueryNamed
    \/ QueryMapNamed
    \/ QueryAndThenNamed
    \/ RowsNext
    \/ DropRows
    \/ Finalize
    \/ Drop
    \/ Into
    \/ DropRaw

Spec == Init /\ [][Next]_vars

(***************************************************************************)
(* Properties.  CallNames is the sequence of native calls the last         *)
(* operation made; Only(F) keeps those named in F.                         *)
(***************************************************************************)
CallNames == [i \in DOMAIN last.native |-> last.native[i].f]

Only(F) == SelectSeq(CallNames, LAMBDA f : f \in F)

StepAndReset == {"sqlite3_step", "sqlite3_reset"}

AfterBinding == {"sqlite3_step", "sqlite3_reset", "sqlite3_changes"}

\* C1: the live handle is released at most once over the statement's whole life; finalize()
\* and drop release it exactly once and leave the null sentinel behind; into() releases
\* nothing and hands the live handle out, the statement keeping the sentinel.
C1_FinalizedAtMostOnce ==
    /\ nfinal <= 1
    /\ owner = "gone" => ptr = "null"
    /\ last.op \in {"finalize", "drop"} =>
          /\ nfinal = 1
          /\ Only({"sqlite3_finalize"}) = <<"sqlite3_finalize">>
    /\ last.op = "into" =>
          /\ nfinal = 0
          /\ rawOut = "live"
          /\ Only({"sqlite3_finalize"}) = <<>>

\* C1 witness: a statement destroyed by finalize(), its handle released once.
C1_Witness ==
    /\ last.op = "finalize"
    /\ nfinal = 1
    /\ ptr = "null"
    /\ st = "Finalized"

\* C2: finalize() returns Ok(()) when the native finalize reports success and the decoded
\* engine error when it reports another status; drop performs the same release and
\* returns nothing, whatever the status.
C2_FinalizeReportsDropDiscards ==
    /\ last.op = "finalize" =>
          /\ last.fin = "SQLITE_OK" => last.res = Ok(0)
          /\ last.fin # "SQLITE_OK" => last.res = SqliteFailure(last.fin)
          /\ Only({"sqlite3_finalize"}) = <<"sqlite3_finalize">>
    /\ last.op = "drop" =>
          /\ last.res = Unit
          /\ Only({"sqlite3_finalize"}) = <<"sqlite3_finalize">>
          /\ st = "Finalized"

\* C2 witness: finalize() reporting the failure of the native finalize.
C2_Witness ==
    /\ last.op = "finalize"
    /\ last.fin = "SQLITE_CONSTRAINT"
    /\ last.res = SqliteFailure("SQLITE_CONSTRAINT")

\* C3: an execute or execute_named whose binding succeeds makes exactly one native step
\* directly followed by exactly one reset, whatever the step reports; the only native call
\* after the reset is the read of the change count.
C3_OneStepThenOneReset ==
    (last.op \in ExecuteOps /\ IsOk(last.bind)) =>
        /\ Only(StepAndReset) = <<"sqlite3_step", "sqlite3_reset">>
        /\ Only(AfterBinding) \in {<<"sqlite3_step", "sqlite3_reset">>,
                                  <<"sqlite3_step", "sqlite3_reset", "sqlite3_changes">>}

\* C3 witness: an execute failing with ExecuteReturnedResults after a step that gave a row.
C3_Witness ==
    /\ last.op = "execute"
    /\ last.step = "SQLITE_ROW"
    /\ last.res = Err("ExecuteReturnedResults")
    /\ Only(StepAndReset) = <<"sqlite3_step", "sqlite3_reset">>

\* C4: execute/execute_named returns Ok(n) exactly when binding succeeded, the step reported
\* DONE and the statement has no result column; n is the connection's change count, read
\* after the step and the reset.
C4_OkIffDoneWithoutColumns ==
    last.op \in ExecuteOps =>
        /\ IsOk(last.res) <=> (IsOk(last.bind) /\ last.step = "SQLITE_DONE" /\ ncols = 0)
        /\ IsOk(last.res) =>
              /\ last.res = Ok(changes)
              /\ Only(AfterBinding) = <<"sqlite3_step", "sqlite3_reset", "sqlite3_changes">>

\* C4 witness: an execute_named that changed one row returns Ok(1).
C4_Witness ==
    /\ last.op = "execute_named"
    /\ last.step = "SQLITE_DONE"
    /\ ncols = 0
    /\ last.res = Ok(1)

\* C5 as stated: execute on a statement with result columns fails with
\* ExecuteReturnedResults whatever status the step reports.
C5_AlwaysReturnedResults ==
    (last.op \in ExecuteOps /\ ncols > 0 /\ IsOk(last.bind)) =>
        last.res = Err("ExecuteReturnedResults")

\* C5: on a statement with result columns whose binding succeeded, execute fails with
\* ExecuteReturnedResults when the step reports a row or completion, and with the decoded
\* engine error when the step reports any other status.
C5_ReturnedResultsOrEngineError ==
    (last.op \in ExecuteOps /\ ncols > 0 /\ IsOk(last.bind)) =>
        IF last.step \in {"SQLITE_ROW", "SQLITE_DONE"}
        THEN last.res = Err("ExecuteReturnedResults")
        ELSE last.res = SqliteFailure(last.step)

\* C5 witness: completion without a row, on a statement with a result column.
C5_Witness ==
    /\ last.op = "execute"
    /\ ncols > 0
    /\ last.step = "SQLITE_DONE"
    /\ last.res = Err("ExecuteReturnedResults")

\* C6 as stated: in every outcome of execute/execute_named, a failure while binding
\* included, the statement has been reset when the call returns and is Ready.
C6_ResetInEveryOutcome ==
    (last.op \in ExecuteOps /\ last.res.tag # "Panic") =>
        /\ "sqlite3_reset" \in {CallNames[i] : i \in DOMAIN CallNames}
        /\ st = "Ready"

\* C6: in every outcome of execute/execute_named whose binding succeeded (success,
\* ExecuteReturnedResults, decoded engine error) the reset is the last change of the step
\* state and the statement is Ready when the call returns; a call whose binding fails
\* returns without a step and without a reset.
C6_ResetWheneverBound ==
    last.op \in ExecuteOps =>
        /\ IsOk(last.bind) =>
              /\ st = "Ready"
              /\ Only(StepAndReset) # <<>>
              /\ Only(StepAndReset)[Len(Only(StepAndReset))] = "sqlite3_reset"
        /\ ~IsOk(last.bind) => Only(StepAndReset) = <<>>

\* C6 witness: an execute whose step failed with an engine error leaves the statement Ready.
C6_Witness ==
    /\ last.op \in ExecuteOps
    /\ last.step = "SQLITE_BUSY"
    /\ last.res = SqliteFailure("SQLITE_BUSY")
    /\ st = "Ready"

(***************************************************************************)
(* The cursor in the statement's whole life.                               *)
(***************************************************************************)
QueryOps == (PositionalOps \cup NamedOps) \ ExecuteOps

CursorOps == {"next", "read", "drop_rows"}

\* C14: a query of any form binds and returns its cursor without a step or reset, and
\* dropping a cursor makes none either: the step state and the change count are those
\* from before the call, so a cursor dropped before its first advance has run nothing.
C14_QueryStepsNothing ==
    [][last'.op \in QueryOps \cup {"drop_rows"} =>
          /\ st' = st
          /\ changes' = changes
          /\ \A i \in DOMAIN last'.native : last'.native[i].f \notin StepAndReset]_vars

\* C14 witness: a cursor over a bound statement was dropped and nothing has run.
C14_Witness ==
    /\ last.op = "drop_rows"
    /\ st = "Ready"
    /\ changes = 0
    /\ nparams > 0
    /\ bound[1] # Null

\* C15: the advance that sees the completion exhausts the cursor; every later advance
\* yields nothing, makes no native call and leaves the statement as it is.
C15_ExhaustedStaysExhausted ==
    [][last'.op = "next" =>
          /\ last'.step = "SQLITE_DONE" => rows'.done
          /\ rows.done => /\ last'.res = None
                          /\ last'.native = <<>>
                          /\ rows'.done
                          /\ st' = st]_vars

\* C15 witness: an exhausted cursor was advanced and yielded nothing.
C15_Witness ==
    /\ last.op = "next"
    /\ rows.done
    /\ last.native = <<>>
    /\ last.res = None
    /\ st = "Done"

\* C16: an advance that steps makes one native step and nothing else; a row status yields
\* a row, completion ends the sequence, any other status yields the engine error decoded
\* from it and leaves the statement in its failed step state, not reset.
C16_AdvanceMapsStatus ==
    (last.op = "next" /\ last.native # <<>>) =>
        /\ CallNames = <<"sqlite3_step">>
        /\ last.step = "SQLITE_ROW" => last.res = Some /\ st = "HasRow"
        /\ last.step = "SQLITE_DONE" => last.res = None /\ st = "Done"
        /\ last.step \notin {"SQLITE_ROW", "SQLITE_DONE"} =>
              /\ last.res = SqliteFailure(last.step)
              /\ st = "Failed"
              /\ ~rows.done

\* C16 witness: an advance whose step was refused by the engine.
C16_Witness ==
    /\ last.op = "next"
    /\ last.step = "SQLITE_BUSY"
    /\ last.res = SqliteFailure("SQLITE_BUSY")
    /\ st = "Failed"

\* C18: at most one cursor is alive on a statement, and while one is alive the only calls
\* that begin are those on the cursor: no bind, execute, query, finalize, drop or into.
C18_OneCursorExclusive ==
    [][/\ rows'.live <= 1
       /\ rows.kind # "none" => last'.op \in CursorOps]_vars

\* C18 witness: a cursor alive that has delivered a row.
C18_Witness ==
    /\ rows.kind # "none"
    /\ rows.live = 1
    /\ last.op = "next"
    /\ last.res = Some

\* C20 as stated: after a cursor is dropped, a call with valid parameters binds and finds
\* the statement at its start.
C20_ReusableAfterDrop ==
    [][(/\ last.op = "drop_rows"
        /\ last'.op \in PositionalOps \cup NamedOps
        /\ last'.bad.why = "none"
        /\ last'.op \in PositionalOps => last'.plen = Small(nparams)) =>
          /\ IsOk(last'.bind)
          /\ st = "Ready"]_vars

(***************************************************************************)
(* SpecPos: the positional calls over slices of every kind of value;       *)
(* cursors are dropped without being advanced and no statement changes a   *)
(* row.                                                                    *)
(***************************************************************************)
FullPos == PosParams(nparams, PosValues)

PosExecute == ExecuteOver(FullPos, {changes})

PosQuery == QueryOver(FullPos, "query", "rows", query)

PosQueryMap == QueryOver(FullPos, "query_map", "map", query_map)

PosQueryAndThen == QueryOver(FullPos, "query_and_then", "and_then", query_and_then)

NextPos ==
    \/ PosExecute
    \/ PosQuery
    \/ PosQueryMap
    \/ PosQueryAndThen
    \/ DropRows

SpecPos == Init /\ [][NextPos]_vars

\* the native binds of the last call, in order
Binds == SelectSeq(last.native, LAMBDA c : c.f \notin AfterBinding)

\* C9 as stated: a positional call given exactly as many values as the statement has
\* parameters, each of a supported domain, binds them all, unless the engine refuses.
C9_SupportedValuesAlwaysBind ==
    (/\ last.op \in PositionalOps
     /\ last.plen = Small(nparams)
     /\ last.allSup
     /\ last.bad.why # "engine") =>
        /\ IsOk(last.bind)
        /\ last.latest

\* C9: a positional call given exactly N values binds the i-th at index i and succeeds
\* when every value converts, no text or blob is longer than 2^31 - 1 bytes, no text holds
\* an interior NUL and the engine accepts every bind; otherwise it fails at the first
\* value that cannot be bound, the values before it being bound.
C9_AcceptedValuesBindInOrder ==
    (last.op \in PositionalOps /\ last.plen = Small(nparams)) =>
        /\ last.bad.why = "none" <=> IsOk(last.bind)
        /\ IsOk(last.bind) => last.latest /\ Len(Binds) = nparams
        /\ \A k \in DOMAIN Binds : Binds[k].col = k
        /\ bound = last.kept
        /\ last.bad.why = "toobig" => last.res = SqliteFailure("SQLITE_TOOBIG")
        /\ last.bad.why = "nul" => last.res = Err("NulError")

\* C9 witness: a query that bound a text at index 1 and an integer at index 2.
C9_Witness ==
    /\ last.op = "query"
    /\ IsOk(last.bind)
    /\ nparams = 2
    /\ bound[1] = Text(1, Small(1), FALSE)
    /\ bound[2] = Integer(1)
    /\ Len(Binds) = 2
    /\ Binds[1].f = "sqlite3_bind_text"
    /\ Binds[1].col = 1

\* C10 as stated: a positional call whose list differs in length from the statement's
\* parameter count panics before any native call, the bound values being those held
\* before the call.
C10_WrongLengthPanics ==
    (last.op \in PositionalOps /\ last.plen # Small(nparams)) =>
        /\ last.res = Panic
        /\ last.native = <<>>
        /\ bound = last.kept

(***************************************************************************)
(* SpecNamed: the named calls over mappings of up to MaxNamed entries;     *)
(* cursors are dropped without being advanced and no statement changes a   *)
(* row.                                                                    *)
(***************************************************************************)
FullNamed == NamedParams(nparams, MaxNamed)

NamedExecute == ExecuteNamedOver(FullNamed, {changes})

NamedQuery == QueryNamedOver(FullNamed, "query_named", "rows", query_named)

NamedQueryMap == QueryNamedOver(FullNamed, "query_map_named", "map", query_map_named)

NamedQueryAndThen ==
    QueryNamedOver(FullNamed, "query_and_then_named", "and_then", query_and_then_named)

NextNamed ==
    \/ NamedExecute
    \/ NamedQuery
    \/ NamedQueryMap
    \/ NamedQueryAndThen
    \/ DropRows

SpecNamed == Init /\ [][NextNamed]_vars

\* C7 as stated: after a named call every parameter holds the value of the latest entry of
\* the mapping that names it, or, if the mapping omits it, the value it held before.
C7_HoldsLatestGiven ==
    last.op \in NamedOps => last.latest

\* C7: after a named call every parameter holds the value of the latest entry naming it
\* among those bound with success -- every entry of a call that succeeds, the entries
\* before the first that cannot be bound in a call that fails -- and otherwise the value
\* it held before the call, NULL if it never had one; the step and reset of execute_named
\* clear nothing.
C7_HoldsLatestBound ==
    last.op \in NamedOps =>
        /\ bound = last.kept
        /\ IsOk(last.bind) => last.latest

\* C7 witness: both parameters hold the value of a first entry, so one of them was given
\* by an earlier call and has survived an execute_named that omitted it.
C7_Witness ==
    /\ last.op = "execute_named"
    /\ IsOk(last.res)
    /\ nparams = 2
    /\ bound[1] = Integer(1)
    /\ bound[2] = Integer(1)

\* C8 as stated: a named call fails with InvalidParameterName carrying the name whenever
\* its mapping holds a well-formed name that is no parameter of the statement.
C8_UnknownNameAlwaysReported ==
    (last.op \in NamedOps /\ last.unknown # {}) =>
        \E name \in last.unknown : last.res = InvalidParameterName(name)

\* C8: a named call fails with InvalidParameterName carrying the name exactly when the
\* first entry that cannot be bound is one whose well-formed name is no parameter of the
\* statement; an earlier entry that fails otherwise decides the result, and a name that is
\* a parameter is never reported.
C8_FirstUnboundEntryDecides ==
    last.op \in NamedOps =>
        /\ last.bad.why = "unknown" <=> last.res.err = "InvalidParameterName"
        /\ last.bad.why = "unknown" =>
              /\ last.res = InvalidParameterName(last.bad.name)
              /\ last.bad.name \in last.unknown
        /\ last.bad.why = "badname" => last.res = Err("NulError")
        /\ last.bad.why = "engine" => last.res.err = "SqliteFailure"
        /\ last.bad.why = "none" => IsOk(last.bind)
        /\ last.res.err = "InvalidParameterName" => ~IsParam(nparams, last.res.name)

\* C8 witness: a query_named whose second entry names no parameter, the first being bound.
C8_Witness ==
    /\ last.op = "query_named"
    /\ last.bad.k = 2
    /\ last.res = InvalidParameterName(UnknownName)
    /\ \E i \in 1..nparams : bound[i] = Integer(1)

(***************************************************************************)
(* SpecValue: values of every kind and length bound by query to the one    *)
(* parameter of a statement whose one result column returns the parameter  *)
(* (SELECT ?1), then read back from the rows of the cursor.                *)
(***************************************************************************)
EchoStatement == [nparams |-> 1, ncols |-> 1]

\* lengths around the c_int range: 2^31 - 1, 2^31, 2^32 + 1
Lengths == {Small(0), Small(1), Small(I32_MAX), USize(1, 0), USize(2, 1)}

AllValues ==
    {Null, Integer(1), Integer(2), Real(1), NaN, ConvErr, ZeroBlob(0), ZeroBlob(2)}
    \cup {EmptyText, EmptyBlob, NulText, Text(3, USize(1, 0), TRUE)}
    \cup {Text(1, len, FALSE) : len \in Lengths \ {Small(0)}}
    \cup {Blob(1, len) : len \in Lengths \ {Small(0)}}

ValueParams == {[len |-> Small(1), vals |-> <<v>>] : v \in AllValues}

InitValue == InitOf({EchoStatement})

ValueQuery == QueryOver(ValueParams, "query", "rows", query)

ValueRead == ReadOver({Cell(bound[1])})

NextValue ==
    \/ ValueQuery
    \/ RowsNext
    \/ ValueRead
    \/ DropRows

SpecValue == InitValue /\ [][NextValue]_vars

\* C11: a text or blob longer than 2^31 - 1 bytes is refused with the engine's too-big
\* error before any native call; a text or blob that is bound is passed to the native
\* bind with its own length, which the engine keeps.
C11_TooBigRefusedLengthExact ==
    last.op = "query" =>
        /\ last.bad.why = "toobig" =>
              /\ last.res = SqliteFailure("SQLITE_TOOBIG")
              /\ last.native = <<>>
        /\ (IsOk(last.bind) /\ last.kept[1].k \in {"Text", "Blob"}) =>
              /\ last.kept[1].len.hi = 0
              /\ Len(last.native) = 1
              /\ last.native[1].n = last.kept[1].len.lo
              /\ bound[1].len = last.kept[1].len

\* C11 witness: a value of more than 2^31 - 1 bytes refused without a native call.
C11_Witness ==
    /\ last.op = "query"
    /\ last.bad.why = "toobig"
    /\ last.res = SqliteFailure("SQLITE_TOOBIG")
    /\ last.native = <<>>

\* C12: an empty blob is bound by sqlite3_bind_zeroblob with length 0, the engine keeps
\* an empty blob, and a read of the column gives an empty Blob, not Null.
C12_EmptyBlobStaysBlob ==
    /\ (last.op = "query" /\ IsOk(last.bind) /\ last.kept[1] = EmptyBlob) =>
          /\ Len(last.native) = 1
          /\ last.native[1].f = "sqlite3_bind_zeroblob"
          /\ last.native[1].n = 0
          /\ bound[1] = EmptyBlob
    /\ (last.op = "read" /\ last.kept[1] = EmptyBlob) => last.read = EmptyBlob

\* C12 witness: the empty blob read back.
C12_Witness ==
    /\ last.op = "read"
    /\ last.kept[1] = EmptyBlob
    /\ Cell(bound[1]).null
    /\ last.read = EmptyBlob

ValueKinds == {"Integer", "Real", "Text", "Blob"}

RowsQueryAndThen == QueryOver(LeanPos, "query_and_then", "and_then", query_and_then)

RowsQueryAndThenNamed ==
    QueryNamedOver(LeanNamed, "query_and_then_named", "and_then", query_and_then_named)

RowsAdvance == RowsNextOver(Transforms, TRUE)

NextRows ==
    \/ RowsQueryAndThen
    \/ RowsQueryAndThenNamed
    \/ RowsAdvance
    \/ DropRows

SpecRows == Init /\ [][NextRows]_vars

\* C17: an advance of an and_then cursor that is not exhausted makes one step; a row gives
\* one element, the transform's result or its failure, added after the elements delivered
\* before, which stay as they were; a failed transform does not exhaust the cursor, so the
\* next advance steps again.
C17_OneElementPerRow ==
    [][(last'.op = "next" /\ rows.kind = "and_then" /\ ~rows.done) =>
          /\ Len(last'.native) = 1
          /\ last'.native[1].f = "sqlite3_step"
          /\ last'.step = "SQLITE_ROW" =>
                /\ last'.res \in {Some, Err("Transform")}
                /\ rows'.elems = Append(rows.elems, last'.res)
          /\ SubSeq(rows'.elems, 1, Len(rows.elems)) = rows.elems
          /\ Len(rows'.elems) <= Len(rows.elems) + 1
          /\ last'.res = Err("Transform") => ~rows'.done]_vars

\* C17 witness: the transform failed on the first row and the second row was delivered.
C17_Witness ==
    /\ rows.kind = "and_then"
    /\ rows.elems = <<Err("Transform"), Some>>
    /\ last.op = "next"
    /\ last.res = Some

(***************************************************************************)
(* SpecBind: positional and named calls on one statement, over the slices  *)
(* of SpecPos and the mappings of SpecNamed.                               *)
(***************************************************************************)
NextBind ==
    \/ PosExecute
    \/ PosQuery
    \/ NamedExecute
    \/ NamedQuery
    \/ DropRows

SpecBind == Init /\ [][NextBind]_vars

BindingOps == PositionalOps \cup NamedOps

\* the last call was one whose binding failed with an error it returns, its slice, if
\* positional, being as long as the statement's parameter count
BindingFailed ==
    /\ last.op \in BindingOps
    /\ last.bind.tag = "Err"
    /\ last.op \in PositionalOps => last.plen = Small(nparams)

\* C22: a call whose binding fails with an error returns that error, makes no step, reset
\* or change count call, leaves the step state and the change count as they were, and
\* leaves no cursor.
C22_BindFailureRunsNothing ==
    [][(last'.op \in BindingOps /\ last'.bind.tag = "Err") =>
          /\ last'.res = last'.bind
          /\ \A i \in DOMAIN last'.native : last'.native[i].f \notin AfterBinding
          /\ st' = st
          /\ changes' = changes
          /\ rows' = rows
          /\ rows'.kind = "none"]_vars

\* C22 witness: an execute_named that bound its first entry and failed on the name of its
\* second.
C22_Witness ==
    /\ last.op = "execute_named"
    /\ last.bad.k = 2
    /\ last.bad.why = "unknown"
    /\ last.res = InvalidParameterName(UnknownName)
    /\ Len(last.native) = 1
    /\ st = "Ready"

\* C23 as stated: when binding fails at the k-th entry the entries before it are bound, and
\* the parameter of the k-th entry and those of later entries hold the values they held
\* before the call.
C23_FailingAndLaterKeepPrior ==
    BindingFailed => bound = last.kept /\ last.prior

\* C23: binding fails at the first entry that cannot be bound, after one native bind per
\* entry before it in list order; every parameter then holds the value of the latest entry
\* before the failing one that names it, else the value it held before the call.  In a
\* positional call the parameters of the failing and later entries hold their prior values.
C23_PrefixBoundRestAsLeft ==
    BindingFailed =>
        /\ last.bad.k > 0
        /\ bound = last.kept
        /\ Len(Binds) = IF last.bad.why = "engine" THEN last.bad.k ELSE last.bad.k - 1
        /\ last.op \in PositionalOps => last.prior /\ \A j \in DOMAIN Binds : Binds[j].col = j

\* C23 witness: a positional query on two parameters that bound its first value and failed
\* at its second, which keeps the value it held.
C23_Witness ==
    /\ last.op = "query"
    /\ nparams = 2
    /\ last.bad.k = 2
    /\ last.bind.tag = "Err"
    /\ bound[1] = Text(1, Small(1), FALSE)
    /\ bound[2] = Integer(1)
    /\ Len(Binds) = 1

(***************************************************************************)
(* SpecCols: column lookups on statements of every list of labels.         *)
(***************************************************************************)
Labels == SeqUpTo(LabelBytes, MaxLabel)

\* the names looked up: one byte longer than a label may be, a NUL allowed
ColumnNames == SeqUpTo(LabelBytes \cup {0}, MaxLabel + 1)

InitCols == \E ls \in SeqUpTo(Labels, MaxCols) : Prepared(0, ls)

\* the columns whose label is the name, counted from 0
Labelled(name) == {i \in 0..(ncols - 1) : labels[i + 1] = name}

ColumnIndex ==
    /\ Callable
    /\ \E name \in ColumnNames :
        LET r == column_index(W, name)
            hits == Labelled(name)
        IN  Returns("column_index", Out(W, r),
                    [NoCall EXCEPT
                        !.arg = name,
                        !.first = IF hits = {} THEN -1
                                  ELSE CHOOSE i \in hits : \A j \in hits : i <= j,
                        !.echo = (IsOk(r) => column_names(W)[r.val + 1] = name)])
    /\ UNCHANGED <<owner, rawOut, rows>>

NextCols == ColumnIndex

SpecCols == InitCols /\ [][NextCols]_vars

\* C21: column_index returns the smallest index, counted from 0, of a column whose label
\* has exactly the bytes of the name, and fails with InvalidColumnName carrying the name
\* exactly when no label has; column_names gives the name at the index returned.
C21_SmallestExactMatch ==
    last.op = "column_index" =>
        /\ last.first >= 0 <=> IsOk(last.res)
        /\ IsOk(last.res) =>
              /\ last.res.val = last.first
              /\ last.res.val \in 0..(ncols - 1)
              /\ last.echo
        /\ ~IsOk(last.res) =>
              /\ last.res.err = "InvalidColumnName"
              /\ last.res.name = last.arg
        /\ last.native = <<>>

\* C21 witness: two columns with the same label, the lookup returning the first.
C21_Witness ==
    /\ last.op = "column_index"
    /\ ncols = 2
    /\ labels[1] = labels[2]
    /\ last.arg = labels[2]
    /\ last.res = Ok(0)

====
